---- MODULE Spec2Model ----
(***************************************************************************)
(* Model of the subtitle correction engine of voice-subtitle-generator:    *)
(* modules/subtitle_corrector.py (SubtitleCorrector.correct_subtitles,     *)
(* validate_srt and preprocess_transcript), the callers in app.py that     *)
(* save the modification report, and modules/srt_generator.py (time_to_ms, *)
(* ms_to_time, parse_srt and correct_timestamps_proportionally, with the   *)
(* double-precision arithmetic they use, generate_srt_from_audio_files and *)
(* _merge_srt).                                                            *)
(*                                                                         *)
(* Texts are sequences of one-character strings, so that len() and strip() *)
(* are computed.  A dict is a record [keys, ref]: keys is the insertion    *)
(* order, ref maps each key to the identity of its value object; the value *)
(* objects (the inner {"time", "text"} dicts) live in heap.                *)
(* An AI response is a sequence of lines.  The marker strings of the code  *)
(* are written in ASCII: "PROC" is the to-correct prefix of line 152,      *)
(* "CTX" the context prefix of line 152, "" no prefix.                     *)
(***************************************************************************)
EXTENDS Integers, Sequences, FiniteSets, TLC

\* ------------------------------------------------------------------ bounds
\* Longest subtitle track (number of entries of the input file).
MaxN == 3
\* Largest batch_size handed to correct_subtitles.
MaxBatch == 4
\* Number of lines the AI emits during one run, all responses together.
MaxLines == 2
\* Largest index of the dicts handed to validate_srt directly.
MaxVKey == 3
\* Longest transcript handed to preprocess_transcript, in characters.
MaxT == 6
\* Largest number of audio files handed to generate_srt_from_audio_files.
MaxFiles == 2
\* Largest millisecond offset, within its minute, handed to ms_to_time.
MaxMs == 2100
\* Most blocks in the content handed to correct_timestamps_proportionally.
MaxBlocks == 3

\* ------------------------------------------------------- program constants
overlap == 2
max_retries == 3
initial_retry_delay == 5

\* Python's None and a present value, for the srt and reports of the result.
None == [none |-> TRUE, val |-> <<>>]
Some(v) == [none |-> FALSE, val |-> v]
\* The subtitle file: missing, not parseable by pysrt, or a list of subs.
NoFile == [status |-> "missing", subs |-> <<>>]
Unparseable == [status |-> "unparseable", subs |-> <<>>]
SrtFile(subs) == [status |-> "ok", subs |-> subs]

\* ------------------------------------------------------------------ helpers
Min(a, b) == IF a < b THEN a ELSE b
Max(a, b) == IF a > b THEN a ELSE b
Abs(a) == IF a < 0 THEN 0 - a ELSE a
Range(s) == {s[j] : j \in 1..Len(s)}

\* Python's s[a:b] for 0 <= a and 0 <= b (0-based, b exclusive, clipped).
Slice(s, a, b) ==
    LET lo == Min(a, Len(s))
        hi == Min(b, Len(s))
    IN  IF hi <= lo THEN <<>> ELSE [j \in 1..(hi - lo) |-> s[lo + j]]

\* str.strip() of a text.
RECURSIVE LStrip(_)
LStrip(t) == IF t # <<>> /\ Head(t) = " " THEN LStrip(Tail(t)) ELSE t
RECURSIVE RStrip(_)
RStrip(t) ==
    IF t # <<>> /\ t[Len(t)] = " " THEN RStrip(SubSeq(t, 1, Len(t) - 1)) ELSE t
Strip(t) == RStrip(LStrip(t))

\* The keys of a set of integers in ascending order (sorted()).
RECURSIVE SortedSeq(_)
SortedSeq(S) ==
    IF S = {} THEN <<>>
    ELSE LET m == CHOOSE x \in S : \A y \in S : x <= y
         IN  <<m>> \o SortedSeq(S \ {m})

\* ---------------------------------------------------------------- timecodes
\* str(SubRipTime): the fields of HH:MM:SS,mmm.
TimeToString(ms) ==
    << ms \div 3600000, (ms \div 60000) % 60, (ms \div 1000) % 60, ms % 1000 >>
\* SubRipTime.from_string: the millisecond ordinal of HH:MM:SS,mmm.
TimeFromString(t) == t[1] * 3600000 + t[2] * 60000 + t[3] * 1000 + t[4]
\* str(sub.start) + " --> " + str(sub.end)
TimeLine(start, end) == << TimeToString(start), TimeToString(end) >>

\* ------------------------------------------------------------------- inputs
\* The text of the entry at position p of the file: the lengths alternate.
TextAt(p) == IF p % 2 = 1 THEN <<"a", "b", "c", "d">> ELSE <<"a", "b", "c">>
\* Texts the AI writes: one with surrounding blanks, one shorter.
RespText == <<" ", "a", "b", "x", "d", " ">>
AltText == <<"a", "b", "c">>

\* The start time of the entry at position p of the file, in ms.
StartAt(p) == 3599000 + (p - 1) * 2500
EndAt(p) == StartAt(p) + 2000

\* A subtitle file: entries in file order, listed in ascending or in
\* descending index order.
Track(n, descending) ==
    [p \in 1..n |->
        [index |-> IF descending THEN n + 1 - p ELSE p,
         start |-> StartAt(p), end |-> EndAt(p), text |-> TextAt(p)]]
Tracks == { Track(n, d) : n \in 0..MaxN, d \in BOOLEAN }
SrtFiles == {NoFile, Unparseable} \cup { SrtFile(t) : t \in Tracks }
\* batch_size arguments, the non-positive ones included.
BatchSizes == -1..MaxBatch

\* Lines of an AI response.
SubLine(prefix, k, t) == [kind |-> "sub", prefix |-> prefix, index |-> k, text |-> t]
DelimLine == [kind |-> "delim", prefix |-> "", index |-> 0, text |-> <<>>]
NoteLine == [kind |-> "note", prefix |-> "", index |-> 0, text |-> <<"r">>]
EmptyLine == [kind |-> "note", prefix |-> "", index |-> 0, text |-> <<>>]
\* The lines the AI may emit for a track of n entries: a rewritten line with
\* the to-correct prefix for every index and for one foreign index, a bare
\* and a context-prefixed line for index 1, the delimiter and free text.
Lines(n) ==
    { SubLine("PROC", k, RespText) : k \in 1..(n + 1) }
    \cup { SubLine(p, 1, AltText) : p \in {"CTX", ""} }
    \cup { DelimLine, NoteLine }
Responses(n, budget) ==
    UNION { [1..m -> Lines(n)] : m \in 0..budget }

Causes == {"429", "other"}

VARIABLES
    transcript_exists,   \* os.path.exists(transcript_file)
    srt_file,            \* the subtitle file: NoFile, Unparseable or a track
    batch_size,          \* the batch_size argument
    pc,                  \* "start", "batch" (before an AI call), "done", "raised"
    heap,                \* value objects: object id -> [time, text]
    original_srt_data,   \* dict [keys, ref] returned by parse_srt
    srt_data,            \* dict [keys, ref]: the working copy
    keys,                \* list(srt_data.keys())
    all_reports,         \* the accumulated report lines
    i,                   \* loop variable of the batch loop
    retry_count,
    retry_delay,
    prompt,              \* subtitle_lines of the current batch
    response,            \* history: the lines of the response applied by the last step
    result,              \* the returned tuple [error, srt, reports]
    parsed_texts,        \* history: index -> text as parsed from the file
    pre_batch,           \* history: index -> text before the batch applied by the last step
    applied_keys,        \* history: batch_keys of the batch applied by the last step
    batches_started,     \* history: number of loop iterations entered
    batch_calls,         \* history: AI calls made so far in the current batch
    last_outcome,        \* history: "none", or how the last AI call ended
    ai_lines,            \* history: lines received from the AI in the run
    applied_after_fail,  \* history: batches applied before the failing one
    retry_wait,          \* history: seconds slept before the last retry of the current batch
    report_file,         \* the report file of the caller: None, or its content
    v_pc,                \* direct call of validate_srt: "idle", "call", "returned"
    v_original,          \* its original_srt argument
    v_modified,          \* its modified_srt argument
    v_result,            \* the (valid, message) it returned
    t_pc,                \* direct call of preprocess_transcript: "idle", "call", "again", "done"
    t_input,             \* its transcript argument
    t_output,            \* what it returned
    t_again,             \* what it returned for t_output
    tm_pc,               \* direct calls of ms_to_time and time_to_ms: "idle", "format", "parse", "done"
    tm_ms,               \* the millisecond offset handed to ms_to_time
    tm_string,           \* the time string ms_to_time returned
    tm_back,             \* what time_to_ms returned for tm_string
    sc_pc,               \* direct call of correct_timestamps_proportionally: "idle", "call", "returned", "raised"
    sc_content,          \* its srt_content argument: a sequence of blocks
    sc_duration,         \* its audio_duration argument
    sc_output,           \* the content it returned
    g_pc,                \* call of generate_srt_from_audio_files: "idle", "start", "file", "returned"
    audio_files,         \* its audio_files argument: a sequence of paths
    language,            \* its language argument
    sorted_files,        \* the audio files as line 186 sorted them
    file_no,             \* number of files the loop of line 192 has processed
    temp_dir,            \* the files written to temp_dir: number |-> content
    srt_files,           \* the dict srt_files, in insertion order
    merge,               \* the locals of _merge_srt when it returned
    output_file,         \* the content written to output_file
    g_result             \* the success flag generate_srt_from_audio_files returned

vars == << transcript_exists, srt_file, batch_size, pc, heap, original_srt_data,
           srt_data, keys, all_reports, i, retry_count, retry_delay, prompt,
           response, result, parsed_texts, pre_batch, applied_keys,
           batches_started, batch_calls, last_outcome, ai_lines,
           applied_after_fail, retry_wait, report_file,
           v_pc, v_original, v_modified, v_result,
           t_pc, t_input, t_output, t_again,
           tm_pc, tm_ms, tm_string, tm_back,
           sc_pc, sc_content, sc_duration, sc_output,
           g_pc, audio_files, language, sorted_files, file_no, temp_dir,
           srt_files, merge, output_file, g_result >>

EmptyDict == [keys |-> <<>>, ref |-> <<>>]
EmptyVDict == [keys |-> <<>>, val |-> <<>>]
\* The message slot of a result that carries no validation message.
NoMessage ==
    [valid |-> TRUE, kind |-> "none", missing |-> {}, extra |-> {},
     idx |-> 0, orig_len |-> 0, mod_len |-> 0]

\* ----------------------------------------------------------------- parse_srt
\* The loop of parse_srt: srt_data[sub.index] = {...} for each sub in file
\* order.  One value object is allocated per sub; its id is the position.
RECURSIVE ParseDict(_, _, _)
ParseDict(subs, p, d) ==
    IF p > Len(subs) THEN d
    ELSE LET k == subs[p].index
             seen == k \in Range(d.keys)
             nk == IF seen THEN d.keys ELSE Append(d.keys, k)
             nr == [x \in Range(nk) |-> IF x = k THEN p ELSE d.ref[x]]
         IN  ParseDict(subs, p + 1, [keys |-> nk, ref |-> nr])
parse_srt(subs) == ParseDict(subs, 1, EmptyDict)
ParseHeap(subs) ==
    [p \in 1..Len(subs) |->
        [time |-> TimeLine(subs[p].start, subs[p].end), text |-> subs[p].text]]

\* dict.copy(): a new dict with the same keys and the same value objects.
DictCopy(d) == [keys |-> d.keys, ref |-> d.ref]

\* The dict as its reader sees it: keys in order, val[k] the value object.
Deref(d, hp) == [keys |-> d.keys, val |-> [k \in Range(d.keys) |-> hp[d.ref[k]]]]
TextsOf(d, hp) == [k \in Range(d.keys) |-> hp[d.ref[k]].text]

\* -------------------------------------------------------------- validate_srt
\* Mutant of FirstBad: the smallest key that is in Bad.
FirstBadSmallest(ks, Bad) ==
    LET P == {ks[j] : j \in 1..Len(ks)} \cap Bad
    IN  IF P = {} THEN 0 ELSE CHOOSE k \in P : \A m \in P : k <= m
\* The first key, in the order of ks, that is in Bad; 0 if none: the key at
\* which a loop "for idx in original_srt" returns.
FirstBad(ks, Bad) ==
    LET P == {j \in 1..Len(ks) : ks[j] \in Bad}
    IN  IF P = {} THEN 0 ELSE ks[CHOOSE j \in P : \A m \in P : j <= m]

\* Mutant of LengthChangeTooLarge: a change of exactly 30% is refused.
LengthChangeTooLargeStrict(orig_len, mod_len) ==
    10 * Abs(orig_len - mod_len) >= 3 * Max(1, orig_len)
\* abs(orig_len - mod_len) / max(1, orig_len) > 0.3, in integers: the
\* quotient of two lengths is correctly rounded, so it exceeds the double 0.3
\* exactly when the rational exceeds 3/10.
LengthChangeTooLarge(orig_len, mod_len) ==
    10 * Abs(orig_len - mod_len) > 3 * Max(1, orig_len)

\* Mutant of validate_srt: only the indices missing from modified are looked for.
validate_srt_missing_only(original, modified) ==
    LET ok == Range(original.keys)
        mk == Range(modified.keys)
        TimeBad == {idx \in ok : original.val[idx].time # modified.val[idx].time}
        LenBad == {idx \in ok : LengthChangeTooLarge(Len(original.val[idx].text),
                                                     Len(modified.val[idx].text))}
    IN  IF ok \ mk # {}
        THEN [valid |-> FALSE, kind |-> "index", missing |-> ok \ mk,
              extra |-> mk \ ok, idx |-> 0, orig_len |-> 0, mod_len |-> 0]
        ELSE IF FirstBad(original.keys, TimeBad) # 0
        THEN [valid |-> FALSE, kind |-> "time", missing |-> {}, extra |-> {},
              idx |-> FirstBad(original.keys, TimeBad), orig_len |-> 0, mod_len |-> 0]
        ELSE IF FirstBad(original.keys, LenBad) # 0
        THEN LET idx == FirstBad(original.keys, LenBad)
             IN  [valid |-> FALSE, kind |-> "length", missing |-> {}, extra |-> {},
                  idx |-> idx, orig_len |-> Len(original.val[idx].text),
                  mod_len |-> Len(modified.val[idx].text)]
        ELSE [valid |-> TRUE, kind |-> "ok", missing |-> {}, extra |-> {},
              idx |-> 0, orig_len |-> 0, mod_len |-> 0]

\* Mutant of validate_srt: the length check runs before the time check.
validate_srt_length_first(original, modified) ==
    LET ok == Range(original.keys)
        mk == Range(modified.keys)
        TimeBad == {idx \in ok : original.val[idx].time # modified.val[idx].time}
        LenBad == {idx \in ok : LengthChangeTooLarge(Len(original.val[idx].text),
                                                     Len(modified.val[idx].text))}
    IN  IF ok # mk
        THEN [valid |-> FALSE, kind |-> "index", missing |-> ok \ mk,
              extra |-> mk \ ok, idx |-> 0, orig_len |-> 0, mod_len |-> 0]
        ELSE IF FirstBad(original.keys, LenBad) # 0
        THEN LET idx == FirstBad(original.keys, LenBad)
             IN  [valid |-> FALSE, kind |-> "length", missing |-> {}, extra |-> {},
                  idx |-> idx, orig_len |-> Len(original.val[idx].text),
                  mod_len |-> Len(modified.val[idx].text)]
        ELSE IF FirstBad(original.keys, TimeBad) # 0
        THEN [valid |-> FALSE, kind |-> "time", missing |-> {}, extra |-> {},
              idx |-> FirstBad(original.keys, TimeBad), orig_len |-> 0, mod_len |-> 0]
        ELSE [valid |-> TRUE, kind |-> "ok", missing |-> {}, extra |-> {},
              idx |-> 0, orig_len |-> 0, mod_len |-> 0]

validate_srt(original, modified) ==
    LET ok == Range(original.keys)
        mk == Range(modified.keys)
        TimeBad == {idx \in ok : original.val[idx].time # modified.val[idx].time}
        LenBad == {idx \in ok : LengthChangeTooLarge(Len(original.val[idx].text),
                                                     Len(modified.val[idx].text))}
    IN  IF ok # mk
        THEN [valid |-> FALSE, kind |-> "index", missing |-> ok \ mk,
              extra |-> mk \ ok, idx |-> 0, orig_len |-> 0, mod_len |-> 0]
        ELSE IF FirstBad(original.keys, TimeBad) # 0
        THEN [valid |-> FALSE, kind |-> "time", missing |-> {}, extra |-> {},
              idx |-> FirstBad(original.keys, TimeBad), orig_len |-> 0, mod_len |-> 0]
        ELSE IF FirstBad(original.keys, LenBad) # 0
        THEN LET idx == FirstBad(original.keys, LenBad)
             IN  [valid |-> FALSE, kind |-> "length", missing |-> {}, extra |-> {},
                  idx |-> idx, orig_len |-> Len(original.val[idx].text),
                  mod_len |-> Len(modified.val[idx].text)]
        ELSE [valid |-> TRUE, kind |-> "ok", missing |-> {}, extra |-> {},
              idx |-> 0, orig_len |-> 0, mod_len |-> 0]

\* ------------------------------------------------------------ batch segmenter
\* Mutant of batch_keys_of: a batch ends where the next one starts.
batch_keys_no_overlap(ks, idx, bs) == Slice(ks, idx, Min(idx + bs - overlap, Len(ks)))
\* batch_keys = keys[i:min(i + batch_size, len(keys))]
batch_keys_of(ks, idx, bs) == Slice(ks, idx, Min(idx + bs, Len(ks)))
\* Mutant of context_keys_of: the context reaches one key further.
context_keys_with_target(ks, idx) ==
    IF idx > 0 THEN Slice(ks, Max(0, idx - overlap + 1), idx + 1) ELSE <<>>
\* context_keys = keys[max(0, i - overlap):i] if i > 0 else []
context_keys_of(ks, idx) ==
    IF idx > 0 THEN Slice(ks, Max(0, idx - overlap), idx) ELSE <<>>

\* Mutant of subtitle_lines_of: the lines carry the texts of the parsed file.
subtitle_lines_of_parsed(ks, idx, bs, d, hp) ==
    LET bk == batch_keys_of(ks, idx, bs)
        batch_with_context == context_keys_of(ks, idx) \o bk
    IN  [j \in 1..Len(batch_with_context) |->
            LET key == batch_with_context[j]
            IN  [prefix |-> IF key \in Range(bk) THEN "PROC" ELSE "CTX",
                 key |-> key, text |-> ParseHeap(srt_file.subs)[d.ref[key]].text]]

\* subtitle_lines: one line per key of context_keys + batch_keys.
subtitle_lines_of(ks, idx, bs, d, hp) ==
    LET bk == batch_keys_of(ks, idx, bs)
        batch_with_context == context_keys_of(ks, idx) \o bk
    IN  [j \in 1..Len(batch_with_context) |->
            LET key == batch_with_context[j]
            IN  [prefix |-> IF key \in Range(bk) THEN "PROC" ELSE "CTX",
                 key |-> key, text |-> hp[d.ref[key]].text]]

\* The batches of range(0, len(keys), batch_size - overlap), for a positive step.
RECURSIVE BatchesFrom(_, _, _)
BatchesFrom(ks, idx, bs) ==
    IF idx >= Len(ks) THEN <<>>
    ELSE << [context |-> context_keys_of(ks, idx), targets |-> batch_keys_of(ks, idx, bs)] >>
         \o BatchesFrom(ks, idx + (bs - overlap), bs)

\* ------------------------------------------------------- applying a response
\* re.split(delimiter, response, maxsplit=1)
RECURSIVE DelimPos(_, _)
DelimPos(resp, p) ==
    IF p > Len(resp) THEN 0
    ELSE IF resp[p].kind = "delim" THEN p ELSE DelimPos(resp, p + 1)
\* Mutant of SplitParts: the response is split at its last delimiter.
SplitPartsAtLast(resp) ==
    LET P == {p \in 1..Len(resp) : resp[p].kind = "delim"}
        p == IF P = {} THEN 0 ELSE CHOOSE x \in P : \A y \in P : y <= x
    IN  IF p = 0 THEN << resp >>
        ELSE << SubSeq(resp, 1, p - 1), SubSeq(resp, p + 1, Len(resp)) >>
SplitParts(resp) ==
    LET p == DelimPos(resp, 1)
    IN  IF p = 0 THEN << resp >>
        ELSE << SubSeq(resp, 1, p - 1), SubSeq(resp, p + 1, Len(resp)) >>

\* re.match(r'(?:PROC )?No(\d+):(.*)', line)
LineMatches(line) == line.kind = "sub" /\ line.prefix \in {"PROC", ""}

\* Mutant of ApplyLines: every matching line of a known index is applied.
RECURSIVE ApplyLinesAnyKey(_, _, _, _)
ApplyLinesAnyKey(lines, bk, d, hp) ==
    IF lines = <<>> THEN hp
    ELSE LET line == Head(lines)
             hit == LineMatches(line) /\ line.index \in Range(d.keys)
             nh == IF hit
                   THEN [hp EXCEPT ![d.ref[line.index]].text = Strip(line.text)]
                   ELSE hp
         IN  ApplyLinesAnyKey(Tail(lines), bk, d, nh)

\* The loop over corrected_lines: srt_data[index]['text'] = corrected_text
\* for each matching line whose index is in batch_keys.
RECURSIVE ApplyLines(_, _, _, _)
ApplyLines(lines, bk, d, hp) ==
    IF lines = <<>> THEN hp
    ELSE LET line == Head(lines)
             hit == LineMatches(line) /\ line.index \in Range(bk)
             nh == IF hit
                   THEN [hp EXCEPT ![d.ref[line.index]].text = Strip(line.text)]
                   ELSE hp
         IN  ApplyLines(Tail(lines), bk, d, nh)

\* report.strip().split('\n') of parts[1]: the blanks before the first line's
\* text and after the last line's text are dropped; no line is blank, so none
\* is lost, and an empty report is the list with one empty line.
ReportLines(part) ==
    IF part = <<>> THEN << EmptyLine >>
    ELSE [j \in 1..Len(part) |->
            LET line == part[j]
                t == IF j = 1 /\ line.kind = "note" THEN LStrip(line.text) ELSE line.text
            IN  [line EXCEPT !.text = IF j = Len(part) THEN RStrip(t) ELSE t]]

\* ------------------------------------------------------------------- results
\* Mutant of BuildSubs: the items in dict order, not sorted.
BuildSubsUnsorted(d, hp) ==
    [j \in 1..Len(d.keys) |->
        LET data == hp[d.ref[d.keys[j]]]
        IN  [index |-> d.keys[j],
             start |-> TimeFromString(data.time[1]),
             end |-> TimeFromString(data.time[2]),
             text |-> data.text]]

\* sorted(srt_data.items()) rebuilt as SubRipItems.
BuildSubs(d, hp) ==
    LET order == SortedSeq(Range(d.keys))
    IN  [j \in 1..Len(order) |->
            LET data == hp[d.ref[order[j]]]
            IN  [index |-> order[j],
                 start |-> TimeFromString(data.time[1]),
                 end |-> TimeFromString(data.time[2]),
                 text |-> data.text]]

NoError == [kind |-> "none", batch |-> 0, cause |-> "", msg |-> NoMessage]
\* Mutant of ErrorResult: the working copy is returned beside the error.
ErrorResultWithTrack(kind, batch, cause, msg) ==
    [error |-> [kind |-> kind, batch |-> batch, cause |-> cause, msg |-> msg],
     srt |-> Some(BuildSubs(srt_data, heap)), reports |-> None]

\* The returns of lines 112, 120, 124, 227 and 232: an error, no track, no report.
ErrorResult(kind, batch, cause, msg) ==
    [error |-> [kind |-> kind, batch |-> batch, cause |-> cause, msg |-> msg],
     srt |-> None, reports |-> None]
NoResult == [error |-> NoError, srt |-> None, reports |-> None]

\* Lines 229-246: validate, then rebuild the track.
Finish(orig, d, hp, reports) ==
    LET v == validate_srt(Deref(orig, hp), Deref(d, hp))
    IN  IF ~v.valid THEN ErrorResult("validation", 0, "", v)
        ELSE [error |-> NoError, srt |-> Some(BuildSubs(d, hp)), reports |-> Some(reports)]

\* 1-based batch number of the error message: i // (batch_size - overlap) + 1
BatchNumber(idx, bs) == (idx \div (bs - overlap)) + 1

\* --------------------------------------------------------------------- Init
History == << parsed_texts, pre_batch, applied_keys, batches_started,
              batch_calls, last_outcome, ai_lines, applied_after_fail, retry_wait >>
Inputs == << transcript_exists, srt_file, batch_size >>
Validation == << v_pc, v_original, v_modified, v_result >>
Transcript == << t_pc, t_input, t_output, t_again >>
Timecode == << tm_pc, tm_ms, tm_string, tm_back >>
\* The variables of the direct calls.
Scaling == << sc_pc, sc_content, sc_duration, sc_output >>
Merging == << g_pc, audio_files, language, sorted_files, file_no, temp_dir,
              srt_files, merge, output_file, g_result >>
Direct == << Validation, Transcript, Timecode, Scaling, Merging >>
\* The variables of a run of correct_subtitles and of its caller.
Run == << transcript_exists, srt_file, batch_size, pc, heap, original_srt_data,
          srt_data, keys, all_reports, i, retry_count, retry_delay, prompt,
          response, result, parsed_texts, pre_batch, applied_keys,
          batches_started, batch_calls, last_outcome, ai_lines,
          applied_after_fail, retry_wait, report_file >>
\* No direct call of validate_srt, of preprocess_transcript.
ValidationIdle ==
    /\ v_pc = "idle"
    /\ v_original = EmptyVDict
    /\ v_modified = EmptyVDict
    /\ v_result = NoMessage
TranscriptIdle ==
    /\ t_pc = "idle"
    /\ t_input = <<>>
    /\ t_output = <<>>
    /\ t_again = <<>>
TimecodeIdle ==
    /\ tm_pc = "idle"
    /\ tm_ms = 0
    /\ tm_string = <<>>
    /\ tm_back = 0

RunDefaults ==
    /\ heap = <<>>
    /\ original_srt_data = EmptyDict
    /\ srt_data = EmptyDict
    /\ keys = <<>>
    /\ all_reports = <<>>
    /\ i = 0
    /\ retry_count = 0
    /\ retry_delay = initial_retry_delay
    /\ prompt = <<>>
    /\ response = <<>>
    /\ result = NoResult
    /\ parsed_texts = <<>>
    /\ pre_batch = <<>>
    /\ applied_keys = <<>>
    /\ batches_started = 0
    /\ batch_calls = 0
    /\ last_outcome = "none"
    /\ ai_lines = 0
    /\ applied_after_fail = 0
    /\ retry_wait = 0
    /\ report_file = None

ScalingIdle ==
    /\ sc_pc = "idle"
    /\ sc_content = <<>>
    /\ sc_duration = [none |-> TRUE, ms |-> 0]
    /\ sc_output = <<>>
\* _merge_srt has not run.
NoMerge == [order |-> <<>>, parts |-> <<>>, all_entries |-> <<>>]
\* No call of generate_srt_from_audio_files.
MergeDefaults ==
    /\ sorted_files = <<>>
    /\ file_no = 0
    /\ temp_dir = <<>>
    /\ srt_files = <<>>
    /\ merge = NoMerge
    /\ output_file = None
    /\ g_result = None
MergeIdle ==
    /\ g_pc = "idle"
    /\ audio_files = <<>>
    /\ language = ""
    /\ MergeDefaults
\* No run of correct_subtitles.
RunIdle ==
    /\ transcript_exists = FALSE
    /\ srt_file = NoFile
    /\ batch_size = 0
    /\ pc = "idle"
    /\ RunDefaults

\* A run of correct_subtitles on some files with some batch_size.
Init ==
    /\ transcript_exists \in BOOLEAN
    /\ srt_file \in SrtFiles
    /\ batch_size \in BatchSizes
    /\ pc = "start"
    /\ RunDefaults
    /\ ValidationIdle
    /\ TranscriptIdle
    /\ TimecodeIdle
    /\ ScalingIdle
    /\ MergeIdle

\* Mutant of StartNoFile: the subtitle file is looked at first.
StartNoFileSrtFirst ==
    /\ pc = "start"
    /\ \/ ~transcript_exists
       \/ srt_file.status # "ok"
    /\ result' = IF srt_file.status = "missing" THEN ErrorResult("no_srt", 0, "", NoMessage)
                 ELSE IF srt_file.status # "ok" THEN ErrorResult("parse_failed", 0, "", NoMessage)
                 ELSE ErrorResult("no_transcript", 0, "", NoMessage)
    /\ pc' = "done"
    /\ UNCHANGED << Inputs, Direct, heap, original_srt_data, srt_data, keys, all_reports, i,
                    retry_count, retry_delay, prompt, response, History, report_file >>

\* Lines 110-124: a missing or unparseable file returns at once.
StartNoFile ==
    /\ pc = "start"
    /\ \/ ~transcript_exists
       \/ srt_file.status # "ok"
    /\ result' = IF ~transcript_exists THEN ErrorResult("no_transcript", 0, "", NoMessage)
                 ELSE IF srt_file.status = "missing" THEN ErrorResult("no_srt", 0, "", NoMessage)
                 ELSE ErrorResult("parse_failed", 0, "", NoMessage)
    /\ pc' = "done"
    /\ UNCHANGED << Inputs, Direct, heap, original_srt_data, srt_data, keys, all_reports, i,
                    retry_count, retry_delay, prompt, response, History, report_file >>

\* Lines 122-161: parse, copy, and enter the batch loop.
StartRun ==
    /\ pc = "start"
    /\ transcript_exists
    /\ srt_file.status = "ok"
    /\ \E od \in { parse_srt(srt_file.subs) }, hp \in { ParseHeap(srt_file.subs) } :
       \E d \in { DictCopy(od) }, step \in { batch_size - overlap } :
           /\ original_srt_data' = od
           /\ heap' = hp
           /\ srt_data' = d
           /\ keys' = d.keys
           /\ parsed_texts' = TextsOf(od, hp)
           /\ IF step = 0
              THEN \* range() arg 3 must not be zero: ValueError leaves the function
                   /\ pc' = "raised"
                   /\ result' = NoResult
                   /\ UNCHANGED << prompt, batches_started >>
              ELSE IF step < 0 \/ Len(d.keys) = 0
              THEN \* the range is empty: no batch
                   /\ pc' = "done"
                   /\ result' = Finish(od, d, hp, <<>>)
                   /\ UNCHANGED << prompt, batches_started >>
              ELSE /\ pc' = "batch"
                   /\ result' = NoResult
                   /\ prompt' = subtitle_lines_of(d.keys, 0, batch_size, d, hp)
                   /\ batches_started' = 1
    /\ UNCHANGED << Inputs, Direct, all_reports, i, retry_count, retry_delay,
                    response, pre_batch, applied_keys, batch_calls, last_outcome,
                    ai_lines, applied_after_fail, retry_wait, report_file >>

\* Lines 172-174: the seconds slept before an attempt.
WaitBeforeCall == IF i > 0 THEN retry_delay ELSE 0

\* Lines 176-180 and 194-224: the call succeeds, the response is applied and
\* the loop goes to the next batch or, after the last one, to lines 229-246.
AICallOk ==
    /\ pc = "batch"
    /\ last_outcome' = "ok"
    /\ \E resp \in Responses(Len(keys), MaxLines - ai_lines) :
        /\ response' = resp
        /\ \E bk \in { batch_keys_of(keys, i, batch_size) }, parts \in { SplitParts(resp) } :
           \E hp \in { ApplyLines(parts[1], bk, srt_data, heap) },
              reports \in { IF Len(parts) > 1 THEN all_reports \o ReportLines(parts[2])
                            ELSE all_reports },
              ni \in { i + (batch_size - overlap) } :
            /\ heap' = hp
            /\ all_reports' = reports
            /\ pre_batch' = TextsOf(srt_data, heap)
            /\ applied_keys' = bk
            /\ ai_lines' = ai_lines + Len(resp)
            /\ IF ni < Len(keys)
               THEN /\ i' = ni
                    /\ pc' = "batch"
                    /\ prompt' = subtitle_lines_of(keys, ni, batch_size, srt_data, hp)
                    /\ retry_count' = 0
                    /\ retry_delay' = initial_retry_delay
                    /\ batches_started' = batches_started + 1
                    /\ batch_calls' = 0
                    /\ retry_wait' = 0
                    /\ result' = result
               ELSE /\ pc' = "done"
                    /\ result' = Finish(original_srt_data, srt_data, hp, reports)
                    /\ batch_calls' = batch_calls + 1
                    /\ retry_wait' = IF batch_calls >= 1 THEN WaitBeforeCall ELSE retry_wait
                    /\ UNCHANGED << i, prompt, retry_count, retry_delay, batches_started >>
    /\ UNCHANGED << Inputs, Direct, original_srt_data, srt_data, keys, parsed_texts,
                    applied_after_fail, report_file >>

\* Mutant of IsRateLimit: every failure is retried.
IsRateLimitAlways(cause) == TRUE
\* Line 184: "429" in str(retry_error)
IsRateLimit(cause) == cause = "429"
\* Mutant of RetriesExhausted: the loop gives up after the fifth failure.
RetriesExhaustedAtFive(rc) == rc >= 5
\* Mutant of RetriesExhausted: one attempt more.
RetriesExhaustedLate(rc) == rc > max_retries
\* Line 191: retry_count >= max_retries
RetriesExhausted(rc) == rc >= max_retries

\* Lines 182-192 and 226-227: the call raises.
AICallFails ==
    /\ pc = "batch"
    /\ \E cause \in Causes :
        LET rc == retry_count + 1
        IN  /\ retry_count' = rc
            /\ last_outcome' = cause
            /\ retry_delay' = IF IsRateLimit(cause) THEN retry_delay * 2 ELSE retry_delay
            /\ IF ~IsRateLimit(cause) \/ RetriesExhausted(rc)
               THEN /\ pc' = "done"
                    /\ result' = ErrorResult("batch", BatchNumber(i, batch_size), cause, NoMessage)
                    /\ applied_after_fail' = batches_started - 1
               ELSE /\ pc' = "batch"
                    /\ UNCHANGED << result, applied_after_fail >>
    /\ batch_calls' = batch_calls + 1
    /\ retry_wait' = IF batch_calls >= 1 THEN WaitBeforeCall ELSE retry_wait
    /\ response' = <<>>
    /\ pre_batch' = <<>>
    /\ applied_keys' = <<>>
    /\ UNCHANGED << Inputs, Direct, heap, original_srt_data, srt_data, keys, all_reports, i,
                    prompt, parsed_texts, batches_started, ai_lines, report_file >>

\* --------------------------------------------------- the caller (app.py)
\* The characters of a line; a marker string is one character.
Digits == <<"0", "1", "2", "3", "4", "5", "6", "7", "8", "9">>
LineChars(line) ==
    IF line.kind = "sub"
    THEN (IF line.prefix = "" THEN <<>> ELSE <<line.prefix, " ">>)
         \o <<"No", Digits[line.index + 1], ":">> \o line.text
    ELSE IF line.kind = "delim" THEN <<"DELIM">>
    ELSE line.text
\* "\n".join(reports)
RECURSIVE JoinLines(_)
JoinLines(lines) ==
    IF lines = <<>> THEN <<>>
    ELSE IF Len(lines) = 1 THEN LineChars(lines[1])
    ELSE LineChars(lines[1]) \o <<"\n">> \o JoinLines(Tail(lines))
\* The placeholder written for a report without lines.
Placeholder == <<"NOCHANGE">>
\* "\n".join(reports) if reports else placeholder
ReportText(reports) == IF reports # <<>> THEN JoinLines(reports) ELSE Placeholder

\* app.py lines 349-363 and 437-447: after a success the caller writes the
\* report file.
SaveReport ==
    /\ pc = "done"
    /\ result.error.kind = "none"
    /\ report_file = None
    /\ report_file' = Some(ReportText(result.reports.val))
    /\ UNCHANGED << Inputs, Direct, pc, heap, original_srt_data, srt_data, keys,
                    all_reports, i, retry_count, retry_delay, prompt, response, result,
                    History >>

Next == StartNoFile \/ StartRun \/ AICallFails \/ AICallOk \/ SaveReport

Spec == Init /\ [][Next]_vars

\* The run and its caller go on: a step that can be taken is taken (an AI
\* call returns or raises).
SpecLive == Init /\ [][Next]_vars /\ WF_vars(Next)

\* ------------------------------------------------- validate_srt called directly
\* A text of n characters.
TextOfLen(n) == [j \in 1..n |-> "a"]
\* (original length, modified length) of the entries whose text was changed.
LenPairs == { <<10, 13>>, <<10, 14>>, <<0, 1>>, <<4, 3>> }
VTime(k) == TimeLine((k - 1) * 5000, k * 5000)
\* A modified time string: another start for odd k, another end for even k.
VTimeShifted(k) ==
    IF k % 2 = 1 THEN TimeLine((k - 1) * 5000 + 500, k * 5000)
    ELSE TimeLine((k - 1) * 5000, k * 5000 + 500)
\* The keys of S in ascending or in descending order.
KeyOrder(S, descending) ==
    LET asc == SortedSeq(S)
    IN  IF descending THEN [j \in 1..Len(asc) |-> asc[Len(asc) + 1 - j]] ELSE asc
VOriginal(S, descending, olen) ==
    [keys |-> KeyOrder(S, descending),
     val |-> [k \in S |-> [time |-> VTime(k), text |-> TextOfLen(olen)]]]
\* The modified dict: the entries of retimed have another start time, the
\* entries of rewritten a text of mlen characters.
VModified(S, retimed, rewritten, olen, mlen) ==
    [keys |-> KeyOrder(S, FALSE),
     val |-> [k \in S |->
                [time |-> IF k \in retimed THEN VTimeShifted(k) ELSE VTime(k),
                 text |-> IF k \in rewritten THEN TextOfLen(mlen) ELSE TextOfLen(olen)]]]

InitValidate ==
    /\ transcript_exists = FALSE
    /\ srt_file = NoFile
    /\ batch_size = 0
    /\ pc = "idle"
    /\ RunDefaults
    /\ TranscriptIdle
    /\ TimecodeIdle
    /\ ScalingIdle
    /\ MergeIdle
    /\ v_pc = "call"
    /\ v_result = NoMessage
    /\ \E lens \in LenPairs, d \in BOOLEAN :
       \E SO \in SUBSET (1..MaxVKey), SM \in SUBSET (1..MaxVKey) :
       \E retimed \in SUBSET SM, rewritten \in SUBSET SM :
          /\ v_original = VOriginal(SO, d, lens[1])
          /\ v_modified = VModified(SM, retimed, rewritten, lens[1], lens[2])

ValidateCall ==
    /\ v_pc = "call"
    /\ v_result' = validate_srt(v_original, v_modified)
    /\ v_pc' = "returned"
    /\ UNCHANGED << Inputs, pc, heap, original_srt_data, srt_data, keys, all_reports,
                    i, retry_count, retry_delay, prompt, response, result, History,
                    report_file, v_original, v_modified, Transcript, Timecode, Scaling, Merging >>

NextValidate == ValidateCall

SpecValidate == InitValidate /\ [][NextValidate]_vars

\* ------------------------------------- preprocess_transcript called directly
\* The characters of a transcript: tag brackets, blank, newline, a letter.
TChars == {"<", ">", " ", "\n", "a"}
Transcripts == UNION { [1..n -> TChars] : n \in 0..MaxT }
\* \s and the characters str.strip() removes.
IsSpace(c) == c \in {" ", "\n"}

\* re.sub(r'<[^>]*?>', '', transcript): from left to right, a '<' and
\* everything up to the next '>' is dropped.
RECURSIVE RemoveTags(_)
RemoveTags(t) ==
    IF t = <<>> THEN <<>>
    ELSE LET close == {r \in 2..Len(t) : t[r] = ">"}
         IN  IF Head(t) = "<" /\ close # {}
             THEN LET r == CHOOSE x \in close : \A y \in close : x <= y
                  IN  RemoveTags(SubSeq(t, r + 1, Len(t)))
             ELSE << Head(t) >> \o RemoveTags(Tail(t))

\* re.sub(r'\s+', ' ', transcript)
RECURSIVE SkipSpaces(_)
SkipSpaces(t) == IF t # <<>> /\ IsSpace(Head(t)) THEN SkipSpaces(Tail(t)) ELSE t
RECURSIVE CollapseSpaces(_)
CollapseSpaces(t) ==
    IF t = <<>> THEN <<>>
    ELSE IF IsSpace(Head(t)) THEN << " " >> \o CollapseSpaces(SkipSpaces(t))
    ELSE << Head(t) >> \o CollapseSpaces(Tail(t))

\* transcript.replace('\n', ' ')
ReplaceNewlines(t) == [j \in 1..Len(t) |-> IF t[j] = "\n" THEN " " ELSE t[j]]

\* transcript.strip()
RECURSIVE StripSpaces(_)
StripSpaces(t) ==
    IF t = <<>> THEN <<>>
    ELSE IF IsSpace(Head(t)) THEN StripSpaces(Tail(t))
    ELSE IF IsSpace(t[Len(t)]) THEN StripSpaces(SubSeq(t, 1, Len(t) - 1))
    ELSE t

\* Mutant of preprocess_transcript: the blanks are collapsed before the tags
\* are removed.
preprocess_transcript_spaces_first(transcript) ==
    StripSpaces(ReplaceNewlines(RemoveTags(CollapseSpaces(transcript))))

\* Lines 55-65.
preprocess_transcript(transcript) ==
    StripSpaces(ReplaceNewlines(CollapseSpaces(RemoveTags(transcript))))

InitTranscript ==
    /\ transcript_exists = FALSE
    /\ srt_file = NoFile
    /\ batch_size = 0
    /\ pc = "idle"
    /\ RunDefaults
    /\ ValidationIdle
    /\ TimecodeIdle
    /\ ScalingIdle
    /\ MergeIdle
    /\ t_pc = "call"
    /\ t_input \in Transcripts
    /\ t_output = <<>>
    /\ t_again = <<>>

PreprocessCall ==
    /\ t_pc = "call"
    /\ t_output' = preprocess_transcript(t_input)
    /\ t_pc' = "again"
    /\ UNCHANGED << Inputs, Validation, pc, heap, original_srt_data, srt_data, keys,
                    all_reports, i, retry_count, retry_delay, prompt, response, result,
                    History, report_file, t_input, t_again, Timecode, Scaling, Merging >>

\* The result is preprocessed once more.
PreprocessAgain ==
    /\ t_pc = "again"
    /\ t_again' = preprocess_transcript(t_output)
    /\ t_pc' = "done"
    /\ UNCHANGED << Inputs, Validation, pc, heap, original_srt_data, srt_data, keys,
                    all_reports, i, retry_count, retry_delay, prompt, response, result,
                    History, report_file, t_input, t_output, Timecode, Scaling, Merging >>

NextTranscript == PreprocessCall \/ PreprocessAgain

SpecTranscript == InitTranscript /\ [][NextTranscript]_vars

\* ------------------------------------------- the floats of srt_generator.py
\* A natural number of any size is the sequence of its digits in base
\* LimbBase, the lowest first, without a leading zero digit; zero is <<>>.
\* A value is computed where the statement that assigns it stands, before
\* the statements that use it.
Computed(v) == v = v
LimbBase == 2^15

RECURSIVE NatNorm(_)
NatNorm(a) ==
    IF a # <<>> /\ a[Len(a)] = 0 THEN NatNorm(SubSeq(a, 1, Len(a) - 1)) ELSE a
\* n is below 2^31.
NatOf(n) ==
    NatNorm(<< n % LimbBase, (n \div LimbBase) % LimbBase, n \div (LimbBase * LimbBase) >>)
NatLimb(a, j) == IF j <= Len(a) THEN a[j] ELSE 0
\* The value of a, which is below 2^31.
IntOf(a) == NatLimb(a, 1) + NatLimb(a, 2) * LimbBase + NatLimb(a, 3) * LimbBase * LimbBase

RECURSIVE NatAddFrom(_, _, _, _)
NatAddFrom(a, b, j, carry) ==
    IF j > Len(a) /\ j > Len(b) THEN (IF carry = 0 THEN <<>> ELSE << carry >>)
    ELSE LET sum == NatLimb(a, j) + NatLimb(b, j) + carry
         IN  << sum % LimbBase >> \o NatAddFrom(a, b, j + 1, sum \div LimbBase)
NatAdd(a, b) == NatAddFrom(a, b, 1, 0)

\* a * c for 0 <= c <= LimbBase.
RECURSIVE NatMulFrom(_, _, _, _)
NatMulFrom(a, c, j, carry) ==
    IF j > Len(a) THEN NatOf(carry)
    ELSE LET prod == a[j] * c + carry
         IN  << prod % LimbBase >> \o NatMulFrom(a, c, j + 1, prod \div LimbBase)
NatMulSmall(a, c) == NatNorm(NatMulFrom(a, c, 1, 0))
\* a * LimbBase^k
NatShiftLimbs(a, k) == IF a = <<>> THEN <<>> ELSE [j \in 1..k |-> 0] \o a
RECURSIVE NatMul(_, _)
NatMul(a, b) ==
    IF b = <<>> THEN <<>>
    ELSE NatAdd(NatMulSmall(a, b[1]), NatShiftLimbs(NatMul(a, Tail(b)), 1))
\* a * 2^k
NatShl(a, k) == NatShiftLimbs(NatMulSmall(a, 2^(k % 15)), k \div 15)

\* Division of the number (r * LimbBase + limb) by d, three bits at a time;
\* r < d < 2^27.
RECURSIVE NatDivLimb(_, _, _, _, _)
NatDivLimb(r, limb, d, n, q) ==
    IF n = 0 THEN [q |-> q, r |-> r]
    ELSE LET x == (r * 8) + ((limb \div (8^(n - 1))) % 8)
             q1 == (q * 8) + (x \div d)
         IN  IF Computed(x) /\ Computed(q1)
             THEN NatDivLimb(x % d, limb, d, n - 1, q1) ELSE [q |-> q, r |-> r]
RECURSIVE NatDivFrom(_, _, _, _)
NatDivFrom(a, d, j, r) ==
    IF j = 0 THEN [q |-> <<>>, r |-> r]
    ELSE LET c == NatDivLimb(r, a[j], d, 5, 0)
             rest == NatDivFrom(a, d, j - 1, c.r)
         IN  IF Computed(c) THEN [q |-> Append(rest.q, c.q), r |-> rest.r] ELSE c
\* Quotient and remainder of a by the integer d, 0 < d < 2^27.
NatNormQuotient(x) == [q |-> NatNorm(x.q), r |-> x.r]
NatDivInt(a, d) == NatNormQuotient(NatDivFrom(a, d, Len(a), 0))
\* floor(a / 2^k)
NatShr(a, k) ==
    IF k >= 15 * Len(a) THEN <<>>
    ELSE NatDivInt(SubSeq(a, k \div 15 + 1, Len(a)), 2^(k % 15)).q
RECURSIVE BitLen(_)
BitLen(x) == IF x = 0 THEN 0 ELSE 1 + BitLen(x \div 2)
NatBitLen(a) == IF a = <<>> THEN 0 ELSE 15 * (Len(a) - 1) + BitLen(a[Len(a)])
NatIsOdd(a) == a # <<>> /\ a[1] % 2 = 1

\* A double is [m, e]: the value m * 2^e, m a natural number below 2^53 + 1.
\* RoundDouble is round-to-nearest-even of the exact value n * 2^e (plus a
\* non-zero amount below the last bit of n when sticky; n then has more than
\* 54 bits).
\* Every stage below takes the values computed before it as parameters.
RoundQuotient(h, q, below, e) ==
    [m |-> IF NatIsOdd(h) /\ (below \/ NatIsOdd(q)) THEN NatAdd(q, << 1 >>) ELSE q,
     e |-> e]
RoundHalf(n, e, sticky, s, h) ==
    IF Computed(h)
    THEN RoundQuotient(h, NatShr(h, 1), sticky \/ NatShl(h, s - 1) # n, e + s)
    ELSE [m |-> n, e |-> e]
RoundBits(n, e, sticky, s) ==
    IF s <= 0 THEN [m |-> n, e |-> e] ELSE RoundHalf(n, e, sticky, s, NatShr(n, s - 1))
RoundDouble(n, e, sticky) ==
    IF Computed(n) THEN RoundBits(n, e, sticky, NatBitLen(n) - 53) ELSE [m |-> n, e |-> e]
\* float(n) of an int below 2^31.
DoubleOfInt(n) == [m |-> NatOf(n), e |-> 0]
\* The double nearest to the quotient d = [q, r] of a division, times 2^e.
DoubleOfQuotient(d, e) ==
    IF Computed(d) THEN RoundDouble(d.q, e, d.r # 0) ELSE [m |-> d.q, e |-> e]
\* The double nearest to num / den: float() of a decimal string with den a
\* power of ten; 0 <= num < 2^31, 0 < den < 2^27.
DoubleOfRatio(num, den) ==
    DoubleOfQuotient(NatDivInt(NatShl(NatOf(num), 90), den), 0 - 90)
\* x / float(den), 0 < den < 2^27.
DoubleDivInt(x, den) ==
    DoubleOfQuotient(NatDivInt(NatShl(x.m, 90), den), x.e - 90)
DoubleMul(x, y) == RoundDouble(NatMul(x.m, y.m), x.e + y.e, FALSE)
DoubleAdd(x, y) ==
    LET e == IF x.e < y.e THEN x.e ELSE y.e
    IN  RoundDouble(NatAdd(NatShl(x.m, x.e - e), NatShl(y.m, y.e - e)), e, FALSE)
\* int(x) of a double x >= 0 below 2^31.
DoubleTrunc(x) ==
    IF x.e >= 0 THEN IntOf(NatShl(x.m, x.e)) ELSE IntOf(NatShr(x.m, 0 - x.e))

\* ------------------------------------------- ms_to_time and time_to_ms
\* Lines 135-138: the fields HH, MM, SS, mmm of the string; divmod three times.
ms_to_time(ms) ==
    LET seconds == ms \div 1000
        minutes == seconds \div 60
    IN  << minutes \div 60, minutes % 60, seconds % 60, ms % 1000 >>
\* Line 124: int(product) of the product total_seconds * 1000.
TruncatedMs(product) ==
    IF Computed(product) THEN DoubleTrunc(product) ELSE 0
\* Line 124: total_seconds * 1000.
TotalMs(total_seconds) ==
    IF Computed(total_seconds)
    THEN TruncatedMs(DoubleMul(total_seconds, DoubleOfInt(1000))) ELSE 0
\* Line 123: int(hours) * 3600 + int(minutes) * 60 + float(seconds).
TotalSeconds(whole, seconds) ==
    IF Computed(seconds) THEN DoubleAdd(DoubleOfInt(whole), seconds) ELSE seconds
\* Lines 122-124: int(hours) * 3600 + int(minutes) * 60 + float("SS.mmm"),
\* times 1000, truncated.
time_to_ms(time_str) ==
    TotalMs(TotalSeconds(time_str[1] * 3600 + time_str[2] * 60,
                         DoubleOfRatio(time_str[3] * 1000 + time_str[4], 1000)))

\* The offsets tried: the first MaxMs milliseconds of the day, of its second
\* hour and of its last minute.
TimeOffsets ==
    { base + x : base \in {0, 3600000, 24 * 3600 * 1000 - 60000}, x \in 0..MaxMs }

InitTime ==
    /\ RunIdle
    /\ ValidationIdle
    /\ TranscriptIdle
    /\ ScalingIdle
    /\ MergeIdle
    /\ tm_pc = "format"
    /\ tm_ms \in TimeOffsets
    /\ tm_string = <<>>
    /\ tm_back = 0

FormatTime ==
    /\ tm_pc = "format"
    /\ tm_string' = ms_to_time(tm_ms)
    /\ tm_pc' = "parse"
    /\ UNCHANGED << Run, Validation, Transcript, Scaling, Merging, tm_ms, tm_back >>

ParseTime ==
    /\ tm_pc = "parse"
    /\ tm_back' = time_to_ms(tm_string)
    /\ tm_pc' = "done"
    /\ UNCHANGED << Run, Validation, Transcript, Scaling, Merging, tm_ms, tm_string >>

NextTime == FormatTime \/ ParseTime

SpecTime == InitTime /\ [][NextTime]_vars

\* ------------------------------------ correct_timestamps_proportionally
\* An SRT content is the sequence of its blocks.  A block of kind "entry" is
\* matched by the pattern of line 150 (a number line, a time line, text
\* lines); a block of kind "junk" is not (its time line has no milliseconds).
EntryBlock(index, start, end, text) ==
    [kind |-> "entry", index |-> index, start |-> start, end |-> end, text |-> text]
JunkBlock(index) ==
    [kind |-> "junk", index |-> index, start |-> <<>>, end |-> <<>>, text |-> <<"a">>]
\* Start and end of the entries tried, in ms.
EntryTimes == { <<0, 0>>, <<1000, 2000>>, <<1001, 2000>>, <<2000, 8000>> }
\* The blocks a content may have at position p.
BlocksAt(p) ==
    { EntryBlock(p, TimeToString(t[1]), TimeToString(t[2]), TextAt(p)) : t \in EntryTimes }
    \cup { JunkBlock(p) }
RECURSIVE ContentsOf(_)
ContentsOf(n) ==
    IF n = 0 THEN { <<>> }
    ELSE { Append(c, b) : c \in ContentsOf(n - 1), b \in BlocksAt(n) }
Contents == UNION { ContentsOf(n) : n \in 0..MaxBlocks }
\* audio_duration: None, or the double nearest to ms / 1000 seconds.
NoDuration == [none |-> TRUE, ms |-> 0]
Duration(ms) == [none |-> FALSE, ms |-> ms]
Durations == { NoDuration, Duration(0), Duration(2000), Duration(10000) }

\* Lines 150-167: the blocks the pattern matches, their text stripped.
RECURSIVE generator_parse_srt(_)
generator_parse_srt(content) ==
    IF content = <<>> THEN <<>>
    ELSE LET b == Head(content)
         IN  (IF b.kind = "entry"
              THEN << [index |-> b.index, start_time |-> b.start,
                       end_time |-> b.end, text |-> Strip(b.text)] >>
              ELSE <<>>)
             \o generator_parse_srt(Tail(content))

\* Lines 98-102: one time of an entry, scaled: ms_to_time(int(product)) of
\* the product ms * correction_factor.
TimeOfProduct(product) ==
    IF Computed(product) THEN ms_to_time(DoubleTrunc(product)) ELSE <<>>
ScaledMs(ms, factor) ==
    IF Computed(ms) THEN TimeOfProduct(DoubleMul(DoubleOfInt(ms), factor)) ELSE <<>>
ScaledTime(time_str, factor) == ScaledMs(time_to_ms(time_str), factor)

\* Lines 104-109: the entries written back as content.
Serialise(entries) ==
    [j \in 1..Len(entries) |->
        EntryBlock(entries[j].index, entries[j].start_time, entries[j].end_time,
                   entries[j].text)]

\* Line 94: (audio_duration * 1000) / subtitle_end_time, subtitle_end_time > 0.
FactorOf(duration_ms, subtitle_end_time) ==
    IF Computed(duration_ms) THEN DoubleDivInt(duration_ms, subtitle_end_time)
    ELSE duration_ms
DurationMs(seconds) ==
    IF Computed(seconds) THEN DoubleMul(seconds, DoubleOfInt(1000)) ELSE seconds
CorrectionFactor(audio_duration, subtitle_end_time) ==
    FactorOf(DurationMs(DoubleOfRatio(audio_duration.ms, 1000)), subtitle_end_time)

\* Lines 97-102: the loop over the entries.
ScaledEntries(parsed, correction_factor) ==
    IF Computed(correction_factor)
    THEN [j \in 1..Len(parsed) |->
            [parsed[j] EXCEPT !.start_time = ScaledTime(@, correction_factor),
                              !.end_time = ScaledTime(@, correction_factor)]]
    ELSE parsed
\* Lines 94-111, subtitle_end_time known.  A result with raised = TRUE is the
\* ZeroDivisionError of line 94.
ScaleFrom(parsed, audio_duration, subtitle_end_time) ==
    IF subtitle_end_time = 0 THEN [raised |-> TRUE, content |-> <<>>]
    ELSE [raised |-> FALSE,
          content |-> Serialise(ScaledEntries(parsed,
                          CorrectionFactor(audio_duration, subtitle_end_time)))]
\* Mutant of ScaleParsed: an empty parse result is not looked for, and
\* parsed[-1] raises.
ScaleParsedNoGuard(srt_content, audio_duration, parsed) ==
    IF parsed = <<>> THEN [raised |-> TRUE, content |-> <<>>]
    ELSE ScaleFrom(parsed, audio_duration, time_to_ms(parsed[Len(parsed)].end_time))
\* Lines 86-111, parsed known.
ScaleParsed(srt_content, audio_duration, parsed) ==
    IF parsed = <<>> THEN [raised |-> FALSE, content |-> srt_content]
    ELSE ScaleFrom(parsed, audio_duration, time_to_ms(parsed[Len(parsed)].end_time))
\* Lines 82-111.
correct_timestamps_proportionally(srt_content, audio_duration) ==
    IF srt_content = <<>> \/ audio_duration.none \/ audio_duration.ms = 0
    THEN [raised |-> FALSE, content |-> srt_content]
    ELSE ScaleParsed(srt_content, audio_duration, generator_parse_srt(srt_content))

InitScale ==
    /\ RunIdle
    /\ ValidationIdle
    /\ TranscriptIdle
    /\ TimecodeIdle
    /\ MergeIdle
    /\ sc_pc = "call"
    /\ sc_content \in Contents
    /\ sc_duration \in Durations
    /\ sc_output = <<>>

\* One call of correct_timestamps_proportionally.
ScaleCall ==
    /\ sc_pc = "call"
    /\ \E r \in { correct_timestamps_proportionally(sc_content, sc_duration) } :
          /\ sc_pc' = IF r.raised THEN "raised" ELSE "returned"
          /\ sc_output' = r.content
    /\ UNCHANGED << Run, Validation, Transcript, Timecode, Merging, sc_content, sc_duration >>

NextScale == ScaleCall

SpecScale == InitScale /\ [][NextScale]_vars

\* ------------------------- generate_srt_from_audio_files and _merge_srt
\* A path and a file name are sequences of characters.  ord(c) of the
\* characters used.
Ord(c) ==
    CASE c = "." -> 46 [] c = "/" -> 47 [] c = "0" -> 48 [] c = "1" -> 49
      [] c = "2" -> 50 [] c = "3" -> 51 [] c = "a" -> 97 [] c = "d" -> 100
      [] c = "m" -> 109 [] c = "p" -> 112
IsDigit(c) == Ord(c) \in 48..57
\* os.path.basename: what follows the last separator.
RECURSIVE basename(_)
basename(path) ==
    IF \E j \in 1..Len(path) : path[j] = "/" THEN basename(Tail(path)) ELSE path
\* re.search(r'^\d+', name): the digits the name starts with.
RECURSIVE LeadingDigits(_)
LeadingDigits(name) ==
    IF name # <<>> /\ IsDigit(Head(name))
    THEN << Head(name) >> \o LeadingDigits(Tail(name))
    ELSE <<>>
\* int() of a string of digits.
RECURSIVE IntOfDigits(_)
IntOfDigits(ds) ==
    IF ds = <<>> THEN 0
    ELSE IntOfDigits(SubSeq(ds, 1, Len(ds) - 1)) * 10 + (Ord(ds[Len(ds)]) - 48)
\* Line 186: the sort key, the leading number or float('inf').
NumberKey(path) ==
    LET m == LeadingDigits(basename(path))
    IN  IF m # <<>> THEN [inf |-> FALSE, n |-> IntOfDigits(m)]
        ELSE [inf |-> TRUE, n |-> 0]
NumberLess(a, b) == ~a.inf /\ (b.inf \/ a.n < b.n)
\* a < b of two strings: by the code points, a proper prefix first.
RECURSIVE StrLess(_, _)
StrLess(a, b) ==
    IF b = <<>> THEN FALSE
    ELSE IF a = <<>> THEN TRUE
    ELSE IF Head(a) = Head(b) THEN StrLess(Tail(a), Tail(b))
    ELSE Ord(Head(a)) < Ord(Head(b))
\* sorted(s, key=...): stable; lt holds the pairs of positions <<k, j>> with
\* key(s[k]) < key(s[j]).
SortedBy(s, lt) ==
    LET rank(j) == Cardinality({ k \in 1..Len(s) :
                        << k, j >> \in lt \/ (k < j /\ << j, k >> \notin lt) }) + 1
    IN  [r \in 1..Len(s) |-> s[CHOOSE j \in 1..Len(s) : rank(j) = r]]
\* Line 186.
SortAudio(files) ==
    SortedBy(files, { p \in (1..Len(files)) \X (1..Len(files)) :
                        NumberLess(NumberKey(files[p[1]]), NumberKey(files[p[2]])) })
\* Line 259: sorted(files_list, key=lambda x: os.path.basename(x[0])).
SortFilesList(files_list) ==
    SortedBy(files_list,
             { p \in (1..Len(files_list)) \X (1..Len(files_list)) :
                 StrLess(basename(files_list[p[1]].filename),
                         basename(files_list[p[2]].filename)) })

\* Lines 211-215: srt_files[filename] = {...}; a key already there keeps its
\* place.
DictPut(d, item) ==
    IF \E j \in 1..Len(d) : d[j].filename = item.filename
    THEN [j \in 1..Len(d) |-> IF d[j].filename = item.filename THEN item ELSE d[j]]
    ELSE Append(d, item)

\* Lines 250-256 and 290-293: the full-width marks, written "FW" and the mark.
FullWidthOf(c) ==
    CASE c = "," -> "FW," [] c = "." -> "FW." [] c = ":" -> "FW:"
      [] c = "?" -> "FW?" [] c = "!" -> "FW!" [] OTHER -> c
FullWidth(text) == [j \in 1..Len(text) |-> FullWidthOf(text[j])]

\* Lines 279-282: a time moved by time_offset.
ShiftedTime(ms, time_offset) ==
    IF Computed(ms) THEN ms_to_time(ms + time_offset) ELSE <<>>
\* Lines 278-282.
ShiftEntries(parsed, time_offset) ==
    IF Computed(time_offset)
    THEN [j \in 1..Len(parsed) |->
            [parsed[j] EXCEPT !.start_time = ShiftedTime(time_to_ms(@), time_offset),
                              !.end_time = ShiftedTime(time_to_ms(@), time_offset)]]
    ELSE parsed
\* Lines 271-282: nothing moves while all_entries is empty.
Adjusted(parsed, all_entries, last_end_time) ==
    IF all_entries # <<>>
    THEN ShiftEntries(parsed, last_end_time - time_to_ms(parsed[1].start_time))
    ELSE parsed
\* Lines 285-294.
Renumbered(parsed, start_index, lang) ==
    [j \in 1..Len(parsed) |->
        [parsed[j] EXCEPT !.index = start_index + j - 1,
                          !.text = IF lang = "zh" THEN FullWidth(@) ELSE @]]

\* Lines 261-301: the loop over the sorted files.  parts records, for every
\* file that was not skipped, what parse_srt returned and what was appended.
RECURSIVE MergeFiles(_, _, _, _, _)
RECURSIVE MergeParsed(_, _, _, _, _, _)
RECURSIVE MergeEntries(_, _, _, _, _, _)
MergeEntries(files, lang, all_entries, parts, parsed, entries) ==
    IF Computed(entries)
    THEN MergeFiles(Tail(files), lang, all_entries \o entries,
                    time_to_ms(entries[Len(entries)].end_time),
                    Append(parts, [filename |-> Head(files).filename,
                                   parsed |-> parsed, entries |-> entries]))
    ELSE MergeFiles(Tail(files), lang, all_entries, 0, parts)
MergeParsed(files, lang, all_entries, last_end_time, parts, parsed) ==
    IF parsed = <<>>
    THEN MergeFiles(Tail(files), lang, all_entries, last_end_time, parts)
    ELSE MergeEntries(files, lang, all_entries, parts, parsed,
                      Renumbered(Adjusted(parsed, all_entries, last_end_time),
                                 Len(all_entries) + 1, lang))
MergeFiles(files, lang, all_entries, last_end_time, parts) ==
    IF files = <<>> THEN [all_entries |-> all_entries, parts |-> parts]
    ELSE MergeParsed(files, lang, all_entries, last_end_time, parts,
                     generator_parse_srt(Head(files).content))
\* Lines 262-263: the files of the list, read.
ReadFiles(files_list, temp) ==
    [j \in 1..Len(files_list) |->
        [filename |-> files_list[j].filename, content |-> temp[files_list[j].path].val]]
MergeSorted(files, lang) ==
    IF Computed(files)
    THEN [order |-> [j \in 1..Len(files) |-> files[j].filename]]
         @@ MergeFiles(files, lang, <<>>, 0, <<>>)
    ELSE NoMerge
\* Lines 236-315.
_merge_srt(files, temp, lang) ==
    MergeSorted(ReadFiles(SortFilesList(files), temp), lang)

\* The paths handed in, the durations pydub reports (0.0 when it fails) and
\* what Whisper returns ("" when the call fails).
Paths ==
    { <<"d", "/", "2", ".", "m", "p", "3">>, <<"d", "/", "1", "0", ".", "m", "p", "3">>,
      <<"0", "3", ".", "m", "p", "3">>, <<"d", "/", "a", ".", "m", "p", "3">> }
FileDurations == { Duration(0), Duration(3000) }
Speech == <<"a", ",", "b">>
Transcriptions ==
    { <<>>,
      << JunkBlock(1) >>,
      << EntryBlock(1, TimeToString(0), TimeToString(1001), Speech) >>,
      << EntryBlock(4, TimeToString(500), TimeToString(1000), Speech),
         EntryBlock(2, TimeToString(1001), TimeToString(2000), Speech) >>,
      << EntryBlock(1, TimeToString(0), TimeToString(0), Speech) >> }
RECURSIVE FileLists(_)
FileLists(n) ==
    IF n = 0 THEN { <<>> }
    ELSE { Append(l, p) : l \in FileLists(n - 1), p \in Paths }
DistinctLists(n) ==
    { l \in FileLists(n) : \A j, k \in 1..n : j # k => l[j] # l[k] }

InitMerge ==
    /\ RunIdle
    /\ ValidationIdle
    /\ TranscriptIdle
    /\ TimecodeIdle
    /\ ScalingIdle
    /\ g_pc = "start"
    /\ audio_files \in UNION { DistinctLists(n) : n \in 0..MaxFiles }
    /\ language \in {"zh", "en"}
    /\ MergeDefaults

\* Lines 182-183: no audio file.
GenerateNoFiles ==
    /\ g_pc = "start"
    /\ audio_files = <<>>
    /\ g_pc' = "returned"
    /\ g_result' = Some(FALSE)
    /\ UNCHANGED << Run, Validation, Transcript, Timecode, Scaling, audio_files,
                    language, sorted_files, file_no, temp_dir, srt_files, merge,
                    output_file >>

\* Lines 186-190: the files are sorted and the loop is entered.
GenerateSort ==
    /\ g_pc = "start"
    /\ audio_files # <<>>
    /\ sorted_files' = SortAudio(audio_files)
    /\ g_pc' = "file"
    /\ UNCHANGED << Run, Validation, Transcript, Timecode, Scaling, audio_files,
                    language, file_no, temp_dir, srt_files, merge, output_file,
                    g_result >>

\* Lines 203-206: the content kept for a transcription.
Corrected(srt_content, audio_duration) ==
    IF srt_content # <<>> /\ audio_duration.ms # 0
    THEN correct_timestamps_proportionally(srt_content, audio_duration)
    ELSE [raised |-> FALSE, content |-> srt_content]
\* Lines 207-217: the file written and the dict entry, or neither.
Written(srt_content, kept) == IF srt_content # <<>> THEN Some(kept) ELSE None
Registered(files, srt_content, item) ==
    IF srt_content # <<>> THEN DictPut(files, item) ELSE files

\* Lines 192-232: one pass of the loop (pydub and Whisper answer); after the
\* last file the tracks are merged and written.  An exception, wherever it
\* is raised, is caught on line 231.
TranscribeFile ==
    /\ g_pc = "file"
    /\ \E audio_duration \in FileDurations, srt_content \in Transcriptions :
       \E n \in { file_no + 1 }, r \in { Corrected(srt_content, audio_duration) } :
          IF r.raised
          THEN /\ g_pc' = "returned"
               /\ g_result' = Some(FALSE)
               /\ UNCHANGED << file_no, temp_dir, srt_files, merge, output_file >>
          ELSE \E temp \in { Append(temp_dir, Written(srt_content, r.content)) },
                  files \in { Registered(srt_files, srt_content,
                                 [filename |-> basename(sorted_files[n]), path |-> n,
                                  content |-> r.content, duration |-> audio_duration]) } :
                /\ file_no' = n
                /\ temp_dir' = temp
                /\ srt_files' = files
                /\ IF n < Len(sorted_files)
                   THEN /\ g_pc' = "file"
                        /\ UNCHANGED << merge, output_file, g_result >>
                   ELSE IF files = <<>>
                   THEN /\ g_pc' = "returned"
                        /\ g_result' = Some(FALSE)
                        /\ UNCHANGED << merge, output_file >>
                   ELSE \E m \in { _merge_srt(files, temp, language) } :
                        /\ merge' = m
                        /\ output_file' = Some(Serialise(m.all_entries))
                        /\ g_result' = Some(TRUE)
                        /\ g_pc' = "returned"
    /\ UNCHANGED << Run, Validation, Transcript, Timecode, Scaling, audio_files,
                    language, sorted_files >>

NextMerge == GenerateNoFiles \/ GenerateSort \/ TranscribeFile

SpecMerge == InitMerge /\ [][NextMerge]_vars

\* ===================================================================== claims
FilesOk == transcript_exists /\ srt_file.status = "ok"
Returned == pc = "done"
Succeeded == Returned /\ result.error.kind = "none"
CurrentTexts == TextsOf(srt_data, heap)
TooLarge(orig_len, new_len) ==
    10 * (IF orig_len > new_len THEN orig_len - new_len ELSE new_len - orig_len)
        > 3 * (IF orig_len > 1 THEN orig_len ELSE 1)

\* C1: when, after all batches were applied, some entry's text length differs
\* from the length it had in the parsed input by more than 30% of
\* max(1, original length), correct_subtitles returns a validation error and
\* neither a track nor a report.
C1_LengthGate ==
    ( /\ Returned
      /\ FilesOk
      /\ result.error.kind # "batch"
      /\ \E k \in DOMAIN parsed_texts :
            TooLarge(Len(parsed_texts[k]), Len(CurrentTexts[k])) )
    => ( /\ result.error.kind = "validation"
         /\ result.srt.none
         /\ result.reports.none )

\* C2: when correct_subtitles fails in a batch, the caller receives an error
\* and neither a track nor a report; every outcome is a whole success (track
\* and report, no error) or a whole failure (error, no track, no report), and
\* nothing is returned before the run ends.
C2_WholeFailure ==
    /\ (Returned /\ result.error.kind = "batch")
            => (result.srt.none /\ result.reports.none)
    /\ Returned =>
            \/ result.error.kind = "none" /\ ~result.srt.none /\ ~result.reports.none
            \/ result.error.kind # "none" /\ result.srt.none /\ result.reports.none
    /\ ~Returned => result = NoResult

\* C2 witness: a later batch failed after an earlier batch had rewritten a text.
C2_Witness ==
    /\ Returned
    /\ result.error.kind = "batch"
    /\ applied_after_fail >= 1
    /\ CurrentTexts # parsed_texts

\* C3: on success the returned track is in ascending index order, its index
\* set is the parsed input's index set, and every entry has the start and end
\* time of the input entry with the same index.
C3_CanonicalTrack ==
    Succeeded =>
        LET items == result.srt.val
            subs == srt_file.subs
        IN  /\ ~result.srt.none
            /\ \A j \in 1..(Len(items) - 1) : items[j].index < items[j + 1].index
            /\ {items[j].index : j \in 1..Len(items)}
                    = {subs[p].index : p \in 1..Len(subs)}
            /\ Len(items) = Cardinality({subs[p].index : p \in 1..Len(subs)})
            /\ \A j \in 1..Len(items) : \E p \in 1..Len(subs) :
                    /\ subs[p].index = items[j].index
                    /\ subs[p].start = items[j].start
                    /\ subs[p].end = items[j].end

\* C3 witness: a success on a file that lists its entries in descending index
\* order, where the AI emitted two rewritten lines in descending index order.
C3_Witness ==
    /\ Succeeded
    /\ Len(srt_file.subs) >= 2
    /\ srt_file.subs[1].index > srt_file.subs[2].index
    /\ Len(response) = 2
    /\ response[1].kind = "sub" /\ response[2].kind = "sub"
    /\ response[1].index > response[2].index
    /\ CurrentTexts # parsed_texts

\* The positions of a response that lie before its first delimiter.
BeforeDelimiter(resp) ==
    {p \in 1..Len(resp) : \A q \in 1..p : resp[q].kind # "delim"}
\* The rewritten lines of a response: numbered lines, bare or with the
\* to-correct prefix, before the delimiter.
RewrittenAt(resp, k) ==
    {p \in BeforeDelimiter(resp) :
        resp[p].kind = "sub" /\ resp[p].prefix \in {"PROC", ""} /\ resp[p].index = k}
JustApplied == last_outcome = "ok"

IntSeq(a, b) == [j \in 1..(b - a + 1) |-> a + j - 1]

\* C5: with step = batchSize - 2, batch number k (from 0) starts at i = k*step
\* < N, has targets keys[i : i+batchSize] and, for k > 0, context
\* keys[max(0, i-2) : i]; a run that applies all batches makes one batch for
\* every k with k*step < N; keys 1..23 with batchSize 10 give targets 1..10,
\* 9..18 with context 7,8 and 17..23 with context 15,16.
C5_Striding ==
    LET step == batch_size - 2
        N == Len(keys)
        k == batches_started - 1
        lo == k * step
        hi == IF lo + batch_size < N THEN lo + batch_size ELSE N
        clo == IF lo - 2 > 0 THEN lo - 2 ELSE 0
        targets == [j \in 1..(hi - lo) |-> keys[lo + j]]
        context == IF k > 0 THEN [j \in 1..(lo - clo) |-> keys[clo + j]] ELSE <<>>
        expected == context \o targets
        ak == IF pc = "batch" THEN k - 1 ELSE k
        alo == ak * step
        ahi == IF alo + batch_size < N THEN alo + batch_size ELSE N
    IN  /\ pc = "batch" =>
              /\ batch_size > 2
              /\ i = lo
              /\ lo < N
              /\ Len(prompt) = Len(expected)
              /\ \A j \in 1..Len(expected) :
                    /\ prompt[j].key = expected[j]
                    /\ prompt[j].prefix = IF j <= Len(context) THEN "CTX" ELSE "PROC"
        /\ JustApplied => applied_keys = [j \in 1..(ahi - alo) |-> keys[alo + j]]
        /\ (Returned /\ FilesOk /\ result.error.kind # "batch" /\ batch_size > 2 /\ N > 0)
              => (k * step < N /\ (k + 1) * step >= N)
        /\ BatchesFrom(IntSeq(1, 23), 0, 10)
              = << [context |-> <<>>, targets |-> IntSeq(1, 10)],
                   [context |-> <<7, 8>>, targets |-> IntSeq(9, 18)],
                   [context |-> <<15, 16>>, targets |-> IntSeq(17, 23)] >>

\* C5 witness: a batch after the first is about to be sent with a context of
\* two entries.
C5_Witness ==
    /\ pc = "batch"
    /\ i > 0
    /\ Len(prompt) >= 3
    /\ prompt[1].prefix = "CTX" /\ prompt[2].prefix = "CTX" /\ prompt[3].prefix = "PROC"

\* C6: a track of N entries, 1 <= N <= batchSize (batchSize > 2), is corrected
\* in exactly one batch, and that batch has no context entry.
C6_SingleBatch ==
    ( /\ pc \in {"batch", "done"}
      /\ FilesOk
      /\ batch_size > 2
      /\ Len(keys) >= 1
      /\ Len(keys) <= batch_size )
    => ( /\ batches_started = 1
         /\ \A j \in 1..Len(prompt) : prompt[j].prefix # "CTX" )

\* C7: with batchSize <= 2 correct_subtitles never returns a successful
\* result: it fails with an error, and no track, before any AI call.
C7_ConfigError ==
    (Returned /\ FilesOk /\ batch_size <= 2)
    => (result.error.kind # "none" /\ result.srt.none /\ batch_calls = 0)

\* C8: the AI call of a batch is attempted at most 3 times; after a rate-limit
\* failure on attempt 1 or 2 the batch is still to be called, a success on any
\* attempt applies the batch, and a rate-limit failure on attempt 3 ends the
\* run with a batch error and no track.
C8_ThreeAttempts ==
    /\ batch_calls <= 3
    /\ (last_outcome = "429" /\ batch_calls < 3) => (pc = "batch" /\ result = NoResult)
    /\ (last_outcome = "429" /\ batch_calls >= 3)
            => (Returned /\ result.error.kind = "batch" /\ result.srt.none)
    /\ last_outcome = "ok"
            => (applied_keys # <<>> /\ result.error.kind # "batch" /\ pc \in {"batch", "done"})

\* C8 witness: the third attempt of a batch succeeded, after two rate-limit
\* failures, and its response rewrote a text.
C8_Witness ==
    /\ last_outcome = "ok"
    /\ Returned
    /\ batch_calls = 3
    /\ CurrentTexts # pre_batch

\* C9: a failure that is not a rate-limit failure ends the run at once with an
\* error that carries the 1-based number of the failing batch and the cause,
\* and once the run has ended no further AI call is made.
C9_AbortAtOnce ==
    /\ [](last_outcome = "other" =>
            /\ Returned
            /\ result.error.kind = "batch"
            /\ result.error.batch = batches_started
            /\ result.error.cause = "other"
            /\ result.srt.none /\ result.reports.none)
    /\ [][pc = "done" => batch_calls' = batch_calls]_vars

\* C9 witness: the first call of the second batch failed with another error.
C9_Witness ==
    /\ last_outcome = "other"
    /\ batches_started = 2
    /\ batch_calls = 1
    /\ Returned

VReturned == v_pc = "returned"
KeySet(d) == {d.keys[j] : j \in 1..Len(d.keys)}

\* C10: validate_srt returns invalid whenever the two index sets differ, and
\* the message reports the missing indices (in original, not in corrected) and
\* the extra indices (in corrected, not in original).
C10_IndexSets ==
    (VReturned /\ KeySet(v_original) # KeySet(v_modified))
    => ( /\ ~v_result.valid
         /\ v_result.kind = "index"
         /\ v_result.missing = {k \in KeySet(v_original) : k \notin KeySet(v_modified)}
         /\ v_result.extra = {k \in KeySet(v_modified) : k \notin KeySet(v_original)} )

\* C10 witness: original {1,2} and corrected {1,3} report missing {2} and
\* extra {3}.
C10_Witness ==
    /\ VReturned
    /\ KeySet(v_original) = {1, 2}
    /\ KeySet(v_modified) = {1, 3}
    /\ ~v_result.valid
    /\ v_result.missing = {2}
    /\ v_result.extra = {3}

\* The indices of both dicts whose time string differs, and those whose text
\* length changed by more than 30%.
VSameKeys == KeySet(v_original) = KeySet(v_modified)
VTimeDiffers ==
    {k \in KeySet(v_original) \cap KeySet(v_modified) :
        v_original.val[k].time # v_modified.val[k].time}
VLengthDiffers ==
    {k \in KeySet(v_original) \cap KeySet(v_modified) :
        TooLarge(Len(v_original.val[k].text), Len(v_modified.val[k].text))}
\* k is the first index of S in the iteration order of the original dict.
VFirstOf(k, S) ==
    \E j \in 1..Len(v_original.keys) :
        /\ v_original.keys[j] = k
        /\ k \in S
        /\ \A m \in 1..(j - 1) : v_original.keys[m] \notin S

\* C11: when the index sets are equal, validate_srt returns invalid if the
\* time string (start or end) of some index differs, and the message names
\* the first such index in the iteration order of the original; if no time
\* differs, the time check does not fail.
C11_Timestamps ==
    (VReturned /\ VSameKeys)
    => IF VTimeDiffers # {}
       THEN /\ ~v_result.valid
            /\ v_result.kind = "time"
            /\ VFirstOf(v_result.idx, VTimeDiffers)
       ELSE v_result.kind # "time"

\* C11 witness: the original iterates 2, 1; both entries were retimed (entry 2
\* at its end time) and the message names index 2.
C11_Witness ==
    /\ VReturned
    /\ v_original.keys = <<2, 1>>
    /\ VSameKeys
    /\ VTimeDiffers = {1, 2}
    /\ v_original.val[2].time[1] = v_modified.val[2].time[1]
    /\ v_result.kind = "time"
    /\ v_result.idx = 2

\* C12: when index sets and times match, validate_srt returns valid exactly
\* when every index has |len(original) - len(corrected)| / max(1,
\* len(original)) <= 0.3, the boundary included (10 -> 13 valid, 10 -> 14
\* invalid, 0 -> 1 invalid); on failure the message names the first offending
\* index, in the original's order, with both lengths.
C12_LengthBound ==
    (VReturned /\ VSameKeys /\ VTimeDiffers = {})
    => /\ v_result.valid <=> (VLengthDiffers = {})
       /\ VLengthDiffers # {} =>
            /\ v_result.kind = "length"
            /\ VFirstOf(v_result.idx, VLengthDiffers)
            /\ v_result.orig_len = Len(v_original.val[v_result.idx].text)
            /\ v_result.mod_len = Len(v_modified.val[v_result.idx].text)
       /\ \A k \in KeySet(v_original) :
            LET o == Len(v_original.val[k].text)
                m == Len(v_modified.val[k].text)
            IN  /\ (o = 10 /\ m = 14) => ~v_result.valid
                /\ (o = 0 /\ m > 0) => ~v_result.valid

\* C12 witness: a text of 10 characters was replaced by one of 13 and the
\* dicts were found valid.
C12_Witness ==
    /\ VReturned
    /\ v_result.valid
    /\ \E k \in KeySet(v_original) :
            /\ Len(v_original.val[k].text) = 10
            /\ Len(v_modified.val[k].text) = 13

\* C13: validate_srt reports only the first failing check, in the order index
\* sets, times, lengths: an index-set mismatch is reported whatever the times
\* and lengths are, and a time difference at any index is reported in
\* preference to a length violation at any index.
C13_CheckOrder ==
    VReturned =>
        /\ ~VSameKeys => v_result.kind = "index"
        /\ (VSameKeys /\ VTimeDiffers # {}) => v_result.kind = "time"
        /\ (VSameKeys /\ VTimeDiffers = {} /\ VLengthDiffers # {})
                => v_result.kind = "length"
        /\ v_result.kind \in {"index", "time", "length"} <=> ~v_result.valid

\* C13 witness: the length of entry 1 and the time of entry 3 were changed;
\* the time of entry 3 is what the message reports.
C13_Witness ==
    /\ VReturned
    /\ v_original.keys = <<1, 2, 3>>
    /\ VSameKeys
    /\ VLengthDiffers = {1}
    /\ VTimeDiffers = {3}
    /\ v_result.kind = "time"
    /\ v_result.idx = 3

\* C14: the report file the caller writes after a success is never empty;
\* when no response carried a change description (no delimiter, or nothing
\* after it) it holds the placeholder line, otherwise the report lines, one
\* per line.
C14_ReportNeverEmpty ==
    ~report_file.none =>
        LET lines == result.reports.val
            described == \E j \in 1..Len(lines) : LineChars(lines[j]) # <<>>
        IN  /\ report_file.val # <<>>
            /\ ~described => report_file.val = Placeholder
            /\ described =>
                  Cardinality({c \in 1..Len(report_file.val) : report_file.val[c] = "\n"})
                        = Len(lines) - 1

\* C18: when the transcript file is missing, or the subtitle file is missing
\* or unparseable, correct_subtitles returns the error of the first file
\* found missing (the transcript first), no track and no report, and no batch
\* is started and no AI call made.
C18_MissingFiles ==
    (Returned /\ ~FilesOk)
    => ( /\ result.error.kind =
                IF ~transcript_exists THEN "no_transcript"
                ELSE IF srt_file.status = "missing" THEN "no_srt"
                ELSE "parse_failed"
         /\ result.srt.none
         /\ result.reports.none
         /\ batches_started = 0
         /\ batch_calls = 0
         /\ last_outcome = "none" )

\* C18 witness: both files are missing and the error is the transcript's.
C18_Witness ==
    /\ Returned
    /\ ~transcript_exists
    /\ srt_file.status = "missing"
    /\ result.error.kind = "no_transcript"

\* C20: in every batch, the first included, the first retry after a
\* rate-limit failure is preceded by a wait of 5 s and the second by a wait of
\* 10 s.
C20_Backoff ==
    /\ batch_calls = 2 => retry_wait = 5
    /\ batch_calls = 3 => retry_wait = 10

\* The positions of t, from p on, that lie in a markup tag: a '<', the next
\* '>' and what is between them, tags being found from left to right.
RECURSIVE TagPositions(_, _)
TagPositions(t, p) ==
    IF p > Len(t) THEN {}
    ELSE LET close == {r \in (p + 1)..Len(t) : t[r] = ">"}
         IN  IF t[p] = "<" /\ close # {}
             THEN LET r == CHOOSE x \in close : \A y \in close : x <= y
                  IN  (p..r) \cup TagPositions(t, r + 1)
             ELSE TagPositions(t, p + 1)
\* The characters of t at the positions of P, in order.
RECURSIVE CharsAt(_, _, _)
CharsAt(t, P, p) ==
    IF p > Len(t) THEN <<>>
    ELSE (IF p \in P THEN << t[p] >> ELSE <<>>) \o CharsAt(t, P, p + 1)
\* The characters of t that are neither in a tag nor white space.
Visible(t) ==
    CharsAt(t, {p \in 1..Len(t) : p \notin TagPositions(t, 1) /\ t[p] \notin {" ", "\n"}}, 1)

\* C19: the string preprocess_transcript returns contains no tag <...>, no
\* newline, no two adjacent white-space characters and no white space at its
\* ends; its visible characters are the input's characters outside tags and
\* white space, in order; preprocessing the result again changes nothing.
C19_Normalised ==
    /\ t_pc \in {"again", "done"} =>
        /\ ~ \E p \in 1..Len(t_output), r \in 1..Len(t_output) :
                p < r /\ t_output[p] = "<" /\ t_output[r] = ">"
        /\ \A p \in 1..Len(t_output) : t_output[p] # "\n"
        /\ \A p \in 1..(Len(t_output) - 1) :
                ~(t_output[p] = " " /\ t_output[p + 1] = " ")
        /\ t_output # <<>> => (t_output[1] # " " /\ t_output[Len(t_output)] # " ")
        /\ Visible(t_output) = Visible(t_input)
        /\ TagPositions(t_output, 1) = {}
    /\ t_pc = "done" => t_again = t_output

\* C19 witness: a tag between a newline and a blank is removed and the white
\* space around it becomes one blank.
C19_Witness ==
    /\ t_pc = "done"
    /\ t_input = <<"a", "\n", "<", ">", " ", "a">>
    /\ t_output = <<"a", " ", "a">>
    /\ t_again = t_output

\* C15: for every offset x with 0 <= x < 24*3600*1000, time_to_ms(ms_to_time(x))
\* is x.
C15_RoundTrip ==
    (tm_pc = "done" /\ 0 <= tm_ms /\ tm_ms < 24 * 3600 * 1000) => tm_back = tm_ms

\* The entry blocks of the content handed over, and the exact millisecond
\* value of a time string.
ScEntries == SelectSeq(sc_content, LAMBDA b : b.kind = "entry")
ScGuarded == ScEntries = <<>> \/ sc_duration.none \/ sc_duration.ms = 0

\* C16: correct_timestamps_proportionally scales every start and end by
\* (true duration in ms) / (end of the last entry in ms), truncated to whole
\* milliseconds, and leaves index, text and order of the entries as they
\* were; with last end 8000 ms and duration 10.0 s an entry 1000-2000 ms
\* becomes 1250-2500 ms.
C16_Proportional ==
    (sc_pc = "returned" /\ ~ScGuarded) =>
        LET last_end == TimeFromString(ScEntries[Len(ScEntries)].end)
        IN  /\ Len(sc_output) = Len(ScEntries)
            /\ \A j \in 1..Len(ScEntries) :
                  /\ sc_output[j].index = ScEntries[j].index
                  /\ sc_output[j].text = ScEntries[j].text
                  /\ TimeFromString(sc_output[j].start)
                        = (TimeFromString(ScEntries[j].start) * sc_duration.ms) \div last_end
                  /\ TimeFromString(sc_output[j].end)
                        = (TimeFromString(ScEntries[j].end) * sc_duration.ms) \div last_end

\* C17: correct_timestamps_proportionally returns the content it was given,
\* and does not raise, when the content has no entry (the empty content
\* included) or when the duration is zero or None.
C17_NoOp ==
    (sc_pc \in {"returned", "raised"} /\ ScGuarded)
    => (sc_pc = "returned" /\ sc_output = sc_content)

\* C17 witness: a content of blocks that are no entries, with a duration of
\* 10 s, came back as it was.
C17_Witness ==
    /\ sc_pc = "returned"
    /\ sc_content # <<>>
    /\ ScEntries = <<>>
    /\ ~sc_duration.none /\ sc_duration.ms = 10000
    /\ sc_output = sc_content

\* C21: before the AI call of every batch after the first a pacing delay of
\* one fixed length is slept, whatever number of rate-limit failures the
\* batch has already seen; no delay precedes the first call of the first
\* batch.  (A step taken at pc = "batch" is an AI call; WaitBeforeCall is
\* what was slept before it.)
C21_FixedPacing ==
    [][pc = "batch" =>
          /\ batches_started > 1 => WaitBeforeCall = initial_retry_delay
          /\ (batches_started = 1 /\ batch_calls = 0) => WaitBeforeCall = 0]_vars

\* C22: the batches are processed one after another in ascending order, the
\* AI call of a batch is issued only after the response of the batch before
\* it has been applied, and every line of the prompt of a batch, context and
\* target alike, carries the text the entry has in the working copy after
\* the earlier batches were applied.
C22_LivePrompt ==
    /\ [](pc = "batch" =>
            /\ i = (batches_started - 1) * (batch_size - overlap)
            /\ \A j \in 1..Len(prompt) : prompt[j].text = CurrentTexts[prompt[j].key])
    /\ [][batches_started' # batches_started =>
            /\ batches_started' = batches_started + 1
            /\ batches_started >= 1 =>
                  /\ last_outcome' = "ok"
                  /\ applied_keys' = batch_keys_of(keys, i, batch_size)
                  /\ i' > i]_vars

\* C22 witness: the prompt of a batch after the first shows a context entry
\* and a target entry with the texts an earlier batch gave them.
C22_Witness ==
    /\ pc = "batch"
    /\ i > 0
    /\ \E j \in 1..Len(prompt) :
          prompt[j].prefix = "CTX" /\ prompt[j].text # parsed_texts[prompt[j].key]
    /\ \E j \in 1..Len(prompt) :
          prompt[j].prefix = "PROC" /\ prompt[j].text # parsed_texts[prompt[j].key]

\* The lines of a response after its first delimiter, and whether it has one.
HasDelimiter(resp) == \E p \in 1..Len(resp) : resp[p].kind = "delim"
AfterDelimiter(resp) ==
    LET p == CHOOSE q \in 1..Len(resp) :
                resp[q].kind = "delim" /\ \A x \in 1..(q - 1) : resp[x].kind # "delim"
    IN  [j \in 1..(Len(resp) - p) |-> resp[p + j]]
\* A step that applies a response.
AppliesResponse == pc = "batch" /\ last_outcome' = "ok"

C24_SnapshotKept ==
    (pc \in {"batch", "done"} /\ FilesOk /\ result.error.kind \notin {"no_transcript", "no_srt", "parse_failed"})
    => TextsOf(original_srt_data, heap) = parsed_texts

\* The position of key k in the list ks of distinct keys.
PositionIn(ks, k) == CHOOSE p \in 1..Len(ks) : ks[p] = k
\* The batches of a track with keys ks cover it, and the context of each is
\* disjoint from its targets and is the (at most 2) keys just before its
\* first target.
CoversWithContext(ks, bs) ==
    LET B == BatchesFrom(ks, 0, bs)
    IN  /\ UNION { Range(B[b].targets) : b \in 1..Len(B) } = Range(ks)
        /\ \A b \in 1..Len(B) :
              LET first == PositionIn(ks, B[b].targets[1])
                  before == [j \in 1..(first - 1) |-> ks[j]]
                  n == Len(B[b].context)
              IN  /\ B[b].targets # <<>>
                  /\ Range(B[b].context) \cap Range(B[b].targets) = {}
                  /\ n <= 2
                  /\ n = IF b = 1 THEN 0 ELSE IF first - 1 < 2 THEN first - 1 ELSE 2
                  /\ B[b].context = SubSeq(before, Len(before) - n + 1, Len(before))

\* C25: for a track of N >= 1 entries and batchSize > 2 every index is a
\* target of at least one batch, and in every batch the context is disjoint
\* from the targets and is the (at most 2) keys just before the first
\* target; the prompt of every batch of a run is made of that context and
\* those targets.
C25_Coverage ==
    /\ (pc \in {"batch", "done"} /\ FilesOk /\ batch_size > 2 /\ Len(keys) >= 1)
            => CoversWithContext(keys, batch_size)
    /\ (pc = "batch") =>
            LET b == BatchesFrom(keys, 0, batch_size)[batches_started]
            IN  /\ [j \in 1..Len(prompt) |-> prompt[j].key] = b.context \o b.targets
                /\ \A j \in 1..Len(prompt) :
                      prompt[j].prefix = IF j <= Len(b.context) THEN "CTX" ELSE "PROC"
    /\ (pc = "start") =>
            \A n \in 1..8 : \A bs \in 3..5 : CoversWithContext(IntSeq(1, n), bs)

\* C25 witness: the second batch of a track of three entries with batch
\* size 3 is about to be sent: its context is the one key before its targets.
C25_Witness ==
    /\ pc = "batch"
    /\ batch_size = 3
    /\ Len(keys) = 3
    /\ batches_started = 2
    /\ Len(prompt) = 3
    /\ prompt[1].prefix = "CTX" /\ prompt[2].prefix = "PROC" /\ prompt[3].prefix = "PROC"

\* C26: every batch for which an AI call is made has a target index that no
\* earlier batch had as a target.
C26_NewTarget ==
    (pc = "batch" /\ batch_size > 2) =>
        LET B == BatchesFrom(keys, 0, batch_size)
        IN  \E t \in Range(B[batches_started].targets) :
                \A e \in 1..(batches_started - 1) : t \notin Range(B[e].targets)

\* ceil(a / b) for b > 0.
CeilDiv(a, b) == (a + b - 1) \div b

\* C27: for every track, every batchSize > 2 and every sequence of AI
\* outcomes correct_subtitles terminates with an error or a result, after at
\* most 3 AI calls per batch and at most ceil(N / (batchSize - 2)) batches.
C27_Terminates ==
    /\ []((FilesOk /\ batch_size > 2) =>
            /\ batch_calls <= 3
            /\ batches_started <= CeilDiv(Len(keys), batch_size - 2))
    /\ (pc = "start" /\ FilesOk /\ batch_size > 2)
            ~> (Returned /\ (result.error.kind # "none" \/ ~result.srt.none))

\* C27 witness: a run ended in the third call of the last of
\* ceil(N / (batchSize - 2)) batches, which failed for the rate limit.
C27_Witness ==
    /\ Returned
    /\ FilesOk
    /\ batch_size > 2
    /\ batches_started >= 2
    /\ batches_started = CeilDiv(Len(keys), batch_size - 2)
    /\ batch_calls = 3
    /\ last_outcome = "429"
    /\ result.error.kind = "batch"

\* C28: correct_timestamps_proportionally returns subtitle content without
\* raising for every content that parses to a non-empty entry list and every
\* positive duration, a list whose last entry ends at 00:00:00,000 included.
C28_NeverRaises ==
    (sc_pc \in {"returned", "raised"} /\ ScEntries # <<>>
        /\ ~sc_duration.none /\ sc_duration.ms > 0) => sc_pc = "returned"

\* The names of the audio files whose track was merged, in the order of
\* sorted_files (line 186).
MergedNames == { merge.parts[j].filename : j \in 1..Len(merge.parts) }
AudioOrder ==
    SelectSeq([j \in 1..Len(sorted_files) |-> basename(sorted_files[j])],
              LAMBDA f : f \in MergedNames)
Merged == g_pc = "returned" /\ g_result = Some(TRUE)

\* C29: _merge_srt concatenates the per-file tracks in the order in which
\* generate_srt_from_audio_files ordered the audio files (ascending leading
\* number of the file name, 2.mp3 before 10.mp3): the merged subtitle order
\* follows the audio order.
C29_MergeFollowsAudio ==
    Merged =>
        /\ \A j \in 1..(Len(sorted_files) - 1) :
              ~NumberLess(NumberKey(sorted_files[j + 1]), NumberKey(sorted_files[j]))
        /\ [j \in 1..Len(merge.parts) |-> merge.parts[j].filename] = AudioOrder

\* C30: the track _merge_srt produces has the indices 1..N in output order,
\* whatever indices the files carried, and for every file after the first
\* non-empty one the first entry starts exactly at the end time of the last
\* entry of the file merged before it, every entry of the file being moved
\* by the same offset.
C30_DenseAndContiguous ==
    Merged =>
        /\ \A j \in 1..Len(merge.all_entries) : merge.all_entries[j].index = j
        /\ \A f \in 2..Len(merge.parts) :
              LET prev == merge.parts[f - 1].entries
                  cur == merge.parts[f]
                  offset == TimeFromString(cur.entries[1].start_time)
                            - TimeFromString(cur.parsed[1].start_time)
              IN  /\ cur.entries[1].start_time = prev[Len(prev)].end_time
                  /\ \A j \in 1..Len(cur.entries) :
                        /\ TimeFromString(cur.entries[j].start_time)
                           - TimeFromString(cur.parsed[j].start_time) = offset
                        /\ TimeFromString(cur.entries[j].end_time)
                           - TimeFromString(cur.parsed[j].end_time) = offset

====
